---- MODULE Spec2Model ----
(***************************************************************************)
(* bake: a build orchestrator for single-directory C/C++ projects.        *)
(* Model of src/src/project.rs (build_project_inner and its helpers) and  *)
(* of BuildMode in src/src/lib.rs.                                        *)
(*                                                                         *)
(* The state is the part of the filesystem the build reads and writes     *)
(* (src/, bin/, bin/debug/, bin/release/), the external toolchain the     *)
(* build shells out to, and the position of the running build.  File      *)
(* names are sequences of characters, so that the extension of a path and *)
(* the derived object name are computed as the code computes them.        *)
(***************************************************************************)
EXTENDS Integers, Sequences, FiniteSets, TLC

VARIABLES
    clock,      \* wall-clock time, the mtime given to a file written now
    srcDir,     \* TRUE iff <root>/src/ exists
    src,        \* entries of src/: name -> [kind, mtime, good]
    binKind,    \* what <root>/bin is: "none", "dir" or "file"
    dirs,       \* bin/debug and bin/release: [exists, ent: name -> [kind, mtime]]
    avail,      \* the compiler commands that can be launched
    linkGood,   \* TRUE iff the objects present link (the linker exits zero)
    pc,         \* position of the build: idle, compiling, linking, done, failed
    mode,       \* BuildMode of the running (or last) build
    todo,       \* entries of src/ the read_dir iterator has not yielded yet
    verdict,    \* per entry of src/, what this build's loop did with it
    log,        \* the child processes this build has spawned, in order
    err,        \* the error the build returned
    fs0,        \* the filesystem as it was when this build started
    again,      \* TRUE iff this build started right after a build of the
                \* same mode had succeeded, nothing touched in between
    carry,      \* what the build before this one compiled, if it failed
    builds,     \* number of builds started
    envSteps,   \* number of environment changes made
    env,        \* the environment variables CC and CXX of the process
    lazy,       \* the cells of the statics CC and CPP: unset, or the value
    reads,      \* per environment variable, how often this run has read it
    name        \* the name given in bake.toml (ProjConfig.name)

vars == <<clock, srcDir, src, binKind, dirs, avail, linkGood, pc, mode, todo,
          verdict, log, err, fs0, again, carry, builds, envSteps, env, lazy,
          reads, name>>

(***************************************************************************)
(* Bounds of the model.                                                    *)
(***************************************************************************)
MaxTime == 1
MaxBuilds == 2
MaxEnvSteps == 1

(***************************************************************************)
(* File names.                                                             *)
(***************************************************************************)
N_a_c == <<"a", ".", "c">>
N_a_cpp == <<"a", ".", "c", "p", "p">>
N_n_h == <<"n", ".", "h">>
N_d == <<"d">>
N_x_txt == <<"x", ".", "t", "x", "t">>

\* Two names that are not valid UTF-8: each starts with a byte that no
\* UTF-8 sequence contains
InvalidBytes == {"<FF>", "<FE>"}
N_ff_c == <<"<FF>", ".", "c">>
N_fe_c == <<"<FE>", ".", "c">>

\* Names that differ from a source's in the extension only
N_b_cc == <<"b", ".", "c", "c">>
N_b_cxx == <<"b", ".", "c", "x", "x">>
N_b_cplus == <<"b", ".", "c", "+", "+">>
N_b_C == <<"b", ".", "C">>
N_dot_c == <<".", "c">>

SrcNames ==
    {N_a_c, N_a_cpp, N_n_h, N_d, N_ff_c, N_fe_c,
     N_b_cc, N_b_cxx, N_b_cplus, N_b_C, N_dot_c}

\* config.name, the project name read from bake.toml
ProjName == <<"a", "p", "p">>

\* The names bake.toml can give: ProjName, which `bake new` accepts, and two
\* that only a bake.toml written by hand can hold, a.c.o and d.o
ProjNames == {ProjName, <<"a", ".", "c", ".", "o">>, <<"d", ".", "o">>}

Modes == {"Debug", "Release"}
ModeDirs == {"debug", "release"}

\* BuildMode::to_string (impl Display)
BadModeToString(m) == "debug"
ModeToString(m) == IF m = "Debug" THEN "debug" ELSE "release"

\* BuildMode::to_flag
to_flag(m) == IF m = "Debug" THEN "-O0" ELSE "-O3"

\* The commands a build can end up launching: the defaults of the statics
\* CC and CPP, and what the environment variables CC and CXX may name
Commands == {"cc", "c++", "gcc", "g++"}
Unset == "unset"
Statics == {"CC", "CPP"}
EnvVars == {"CC", "CXX"}

(***************************************************************************)
(* Path::extension: the part of the file name after its last dot; None    *)
(* when there is no dot, or when the only dot starts the name.            *)
(***************************************************************************)
None == [some |-> FALSE, val |-> <<>>]
Some(v) == [some |-> TRUE, val |-> v]

Dots(n) == {i \in 1..Len(n) : n[i] = "."}
LastDot(n) == CHOOSE i \in Dots(n) : \A j \in Dots(n) : j <= i

Extension(n) ==
    IF Dots(n) = {} THEN None
    ELSE IF LastDot(n) = 1 THEN None
    ELSE Some(SubSeq(n, LastDot(n) + 1, Len(n)))

\* impl FromStr for Lang
from_strShort(s) ==
    IF s = <<"c">> THEN Some("C")
    ELSE IF s \in {<<"c", "p", "p">>, <<"c", "+", "+">>, <<"C">>}
         THEN Some("Cpp")
    ELSE [some |-> FALSE, val |-> "Err"]
from_str(s) ==
    IF s = <<"c">> THEN Some("C")
    ELSE IF s \in {<<"c", "c">>, <<"c", "x", "x">>, <<"c", "p", "p">>, <<"c", "+", "+">>}
         THEN Some("Cpp")
    ELSE [some |-> FALSE, val |-> "Err"]

\* OsStr::to_str / Path::to_str: None unless the name is valid UTF-8
to_str(n) ==
    IF \E i \in 1..Len(n) : n[i] \in InvalidBytes THEN None ELSE Some(n)

\* OsStr::to_string_lossy: every invalid byte becomes U+FFFD
to_string_lossy(n) ==
    [i \in 1..Len(n) |-> IF n[i] \in InvalidBytes THEN "<U+FFFD>" ELSE n[i]]

\* source_path.extension().and_then(to_str).and_then(|ext| ext.parse::<Lang>().ok())
LangOf(n) ==
    IF Extension(n).some /\ to_str(Extension(n).val).some
    THEN from_str(Extension(n).val)
    ELSE [some |-> FALSE, val |-> "Err"]

\* Lang::get_compiler: the static it dereferences
get_compilerAlwaysC(lang) == "CC"
get_compiler(lang) == IF lang = "C" THEN "CC" ELSE "CPP"

\* The closures of the two statics:
\*   env::var("CC").unwrap_or_else(|_| "cc".to_string())
\*   env::var("CXX").unwrap_or_else(|_| "c++".to_string())
EnvVarOf(s) == IF s = "CC" THEN "CC" ELSE "CXX"
DefaultOf(s) == IF s = "CC" THEN "cc" ELSE "c++"
Closure(s, e) == IF e[EnvVarOf(s)] = Unset THEN DefaultOf(s) ELSE e[EnvVarOf(s)]

\* Lazy::force: the closure runs on the first dereference only
Uninit == "uninit"
ForceAgain(cell, s, e) == Closure(s, e)
Force(cell, s, e) == IF cell # Uninit THEN cell ELSE Closure(s, e)

\* bin_dir.join(file_name + ".o"), file_name being
\* source_path.file_name().to_string_lossy().to_string()
ObjectName(n) == to_string_lossy(n) \o <<".", "o">>

\* The names bin/<mode>/ can hold: the objects of the sources, the
\* executable, and entries that are neither (d.o, x.txt)
BinNames ==
    {ObjectName(n) : n \in {m \in SrcNames : LangOf(m).some}}
        \cup {ObjectName(N_d), ProjName, N_x_txt}

(***************************************************************************)
(* Directory entries.                                                      *)
(***************************************************************************)
NoSrc == [kind |-> "none", mtime |-> 0, good |-> TRUE]
NoEnt == [kind |-> "none", mtime |-> 0]
EmptyDir == [exists |-> FALSE, ent |-> [n \in BinNames |-> NoEnt]]
NoErr == [kind |-> "none", path |-> <<>>]
NoCarry == [mode |-> "none", files |-> {}, mt |-> [n \in {} |-> 0]]
NoSnapshot ==
    [srcDir |-> FALSE, src |-> [n \in SrcNames |-> NoSrc], binKind |-> "none",
     dirs |-> [d \in ModeDirs |-> EmptyDir]]

\* A regular file of src/ a compiler would be run on
IsCandidate(e, n) == e.kind = "file" /\ LangOf(n).some

SrcFile(g) == [kind |-> "file", mtime |-> 0, good |-> g]
SrcOther(k) == [kind |-> k, mtime |-> 0, good |-> TRUE]

\* The projects the model starts from: two sources, each compiling or not,
\* beside a header; or two sources that compile beside an extensionless
\* entry: a regular file, a directory, or one whose metadata cannot be read;
\* or two sources that compile and whose names are not valid UTF-8.
Projects ==
    {[n \in SrcNames |-> IF n = N_a_c THEN SrcFile(g1)
                         ELSE IF n = N_a_cpp THEN SrcFile(g2)
                         ELSE IF n = N_n_h THEN SrcOther("file")
                         ELSE NoSrc] : g1 \in BOOLEAN, g2 \in BOOLEAN}
    \cup
    {[n \in SrcNames |-> IF n \in {N_a_c, N_a_cpp} THEN SrcFile(TRUE)
                         ELSE IF n = N_d THEN SrcOther(k)
                         ELSE NoSrc] : k \in {"file", "dir", "nostat"}}
    \cup
    \* two sources whose names are not valid UTF-8
    {[n \in SrcNames |-> IF n \in {N_ff_c, N_fe_c} THEN SrcFile(TRUE) ELSE NoSrc]}

(***************************************************************************)
(* The staleness test of the compile loop:                                 *)
(*   !object_path.exists()                                                 *)
(*     || source_metadata.modified()? > object_path.metadata()?.modified()?*)
(***************************************************************************)
StaleOnTie(e, oe) == oe.kind = "none" \/ e.mtime >= oe.mtime
StaleNewerOnly(e, oe) == e.mtime > oe.mtime
StaleAbsentOnly(e, oe) == oe.kind = "none"
StaleIfDiffers(e, oe) == oe.kind = "none" \/ e.mtime # oe.mtime
IsStale(e, oe) == oe.kind = "none" \/ e.mtime > oe.mtime

(***************************************************************************)
(* Command::new(cmd).args(..).status()?.success(): the child cannot be     *)
(* launched ("nolaunch", status() is Err), exits zero ("ok") or exits      *)
(* non-zero ("fail").  works says whether the tool, once launched, can     *)
(* do its job on these inputs.                                             *)
(***************************************************************************)
StatusNoLaunchAsFail(cmd, works) ==
    IF cmd \notin avail \/ ~works THEN "fail" ELSE "ok"
Status(cmd, works) ==
    IF cmd \notin avail THEN "nolaunch"
    ELSE IF works THEN "ok"
    ELSE "fail"

\* What the loop does after a compile child returned: `?` on a launch error,
\* bail! on a non-zero exit, the next iteration (or the link) otherwise.
AfterCompileIgnoreExit(res, rest) ==
    IF res = "nolaunch" THEN "failed"
    ELSE IF rest = {} THEN "linking" ELSE "compiling"
AfterCompileLinkEarly(res, rest) ==
    IF res = "ok" THEN "linking" ELSE "failed"
AfterCompile(res, rest) ==
    IF res = "ok" THEN (IF rest = {} THEN "linking" ELSE "compiling")
    ELSE "failed"

\* What the link returns: `?` on a launch error, bail! on a non-zero exit,
\* Ok(()) otherwise.
AfterLinkRetry(res) == IF res = "ok" THEN "done" ELSE "linking"
AfterLink(res) == IF res = "ok" THEN "done" ELSE "failed"

\* What the loop makes of an entry before it looks at the object: the
\* metadata cannot be read ("nostat", a fatal error), the entry is no regular
\* file or its extension names no language ("skipped", continue), or it is
\* a source to consider.
ClassifySkipUnreadable(e, n) ==
    IF e.kind # "file" \/ ~LangOf(n).some THEN "skipped" ELSE "source"
Classify(e, n) ==
    IF e.kind = "nostat" THEN "nostat"
    ELSE IF e.kind # "file" \/ ~LangOf(n).some THEN "skipped"
    ELSE "source"

ErrorOf(res, whenFail, n) ==
    IF res = "ok" THEN NoErr
    ELSE IF res = "nolaunch" THEN [kind |-> "ToolchainUnavailable", path |-> <<>>]
    ELSE [kind |-> whenFail, path |-> n]

\* The second loop: the paths pushed to object_files
ObjectFilesNoFileCheck(d) ==
    {n \in BinNames : d[n].kind # "none" /\ Extension(n) = Some(<<"o">>)}
ObjectFilesOfSources(d) ==
    {o \in BinNames : d[o].kind = "file" /\ Extension(o) = Some(<<"o">>)
                         /\ \E n \in SrcNames : src[n].kind = "file" /\ ObjectName(n) = o}
ObjectFiles(d) ==
    {n \in BinNames : d[n].kind = "file" /\ Extension(n) = Some(<<"o">>)}

TypeOK ==
    /\ clock \in 0..MaxTime
    /\ srcDir \in BOOLEAN
    /\ binKind \in {"none", "dir", "file"}
    /\ avail \subseteq Commands
    /\ linkGood \in BOOLEAN
    /\ pc \in {"idle", "compiling", "linking", "done", "failed",
              "running", "ran", "runfailed"}
    /\ mode \in Modes
    /\ todo \subseteq SrcNames
    /\ builds \in 0..MaxBuilds
    /\ envSteps \in 0..MaxEnvSteps
    /\ env \in [EnvVars -> Commands \cup {Unset}]
    /\ lazy \in [Statics -> Commands \cup {Uninit}]
    /\ reads \in [EnvVars -> Nat]
    /\ name \in ProjNames

(***************************************************************************)
(* Initial states: a project directory before the first build.  bin/ does *)
(* not exist yet, or is in the way as a regular file; src/ exists with any *)
(* content, or is missing.                                                 *)
(***************************************************************************)
Init ==
    /\ clock = 0
    /\ srcDir \in BOOLEAN
    /\ src \in IF srcDir THEN Projects ELSE {[n \in SrcNames |-> NoSrc]}
    /\ binKind \in {"none", "file"}
    /\ binKind = "file" => srcDir /\ src[N_d].kind = "file"
    /\ dirs = [d \in ModeDirs |-> EmptyDir]
    /\ avail = Commands
    /\ linkGood = TRUE
    /\ pc = "idle"
    /\ mode = "Debug"
    /\ todo = {}
    /\ verdict = [n \in SrcNames |-> "unseen"]
    /\ log = <<>>
    /\ err = NoErr
    /\ fs0 = NoSnapshot
    /\ again = FALSE
    /\ carry = NoCarry
    /\ builds = 0
    /\ envSteps = 0
    /\ env = [v \in EnvVars |-> Unset]
    /\ lazy = [s \in Statics |-> Uninit]
    /\ reads = [v \in EnvVars |-> 0]
    /\ name = ProjName

envVars == <<srcDir, src, avail, linkGood, env, name>>
histVars == <<fs0, again, carry, builds>>

\* What an invocation that has returned leaves to the next one: when it
\* failed, the sources it had compiled by then and the times they had.
\* The record is kept while sources are edited and dropped on any other
\* change of the environment.
OkCompiled ==
    {log[i].file : i \in {j \in 1..Len(log) :
        log[j].op = "compile" /\ log[j].res = "ok"}}

Carried ==
    IF pc = "failed" /\ OkCompiled # {}
    THEN [mode |-> mode,
          files |-> OkCompiled,
          mt |-> [n \in OkCompiled |-> src[n].mtime]]
    ELSE IF pc = "idle" THEN carry
    ELSE NoCarry

(***************************************************************************)
(* build_project_inner, up to the first iteration of the compile loop:    *)
(* fs::create_dir_all(bin/<mode>) and fs::read_dir(src/).  The first build *)
(* of a project is taken to be a debug build, the default of the command   *)
(* line; the builds after it are of either mode.                           *)
(***************************************************************************)
BuildStart(m) ==
    /\ pc \in {"idle", "done", "failed", "ran", "runfailed"}
    /\ builds < MaxBuilds
    /\ builds = 0 => m = "Debug"
    /\ builds' = builds + 1
    /\ mode' = m
    /\ again' = (pc = "done" /\ mode = m)
    /\ carry' = Carried
    /\ fs0' = [srcDir |-> srcDir, src |-> src, binKind |-> binKind, dirs |-> dirs]
    /\ log' = <<>>
    /\ verdict' = [n \in SrcNames |-> "unseen"]
    /\ lazy' = [s \in Statics |-> Uninit]
    /\ reads' = [v \in EnvVars |-> 0]
    /\ IF binKind = "file"
       THEN /\ pc' = "failed"
            /\ err' = [kind |-> "CreateDirFailed", path |-> <<>>]
            /\ todo' = {}
            /\ UNCHANGED <<binKind, dirs>>
       ELSE /\ binKind' = "dir"
            /\ dirs' = [dirs EXCEPT ![ModeToString(m)].exists = TRUE]
            /\ IF ~srcDir
               THEN /\ pc' = "failed"
                    /\ err' = [kind |-> "ReadSrcFailed", path |-> <<>>]
                    /\ todo' = {}
               ELSE /\ todo' = {n \in SrcNames : src[n].kind # "none"}
                    /\ pc' = IF todo' = {} THEN "linking" ELSE "compiling"
                    /\ err' = NoErr
    /\ UNCHANGED <<clock, envVars, envSteps>>

(***************************************************************************)
(* One iteration of the compile loop, on the entry n that read_dir yields  *)
(* next (the order of enumeration is the filesystem's).                    *)
(***************************************************************************)
Skip(n, v) ==
    /\ verdict' = [verdict EXCEPT ![n] = v]
    /\ pc' = IF todo \ {n} = {} THEN "linking" ELSE "compiling"
    /\ UNCHANGED <<dirs, log, err, lazy, reads>>

\* &*CC, &*CPP: dereference the static s
Deref(s) ==
    /\ lazy' = [lazy EXCEPT ![s] = Force(@, s, env)]
    /\ reads' = IF lazy[s] # Uninit THEN reads
                 ELSE [reads EXCEPT ![EnvVarOf(s)] = @ + 1]

\* source_path.to_str().unwrap() on a path that is not valid UTF-8: the
\* process panics while the arguments are built, after the command name
\* was resolved and before any child is spawned
Panic(n) ==
    /\ Deref(get_compiler(LangOf(n).val))
    /\ verdict' = [verdict EXCEPT ![n] = "panic"]
    /\ pc' = "failed"
    /\ err' = [kind |-> "Panic", path |-> n]
    /\ UNCHANGED <<dirs, log>>

Compile(n) ==
    LET bin_dir == ModeToString(mode)
        object == ObjectName(n)
        oe == dirs[bin_dir].ent[object]
        static == get_compiler(LangOf(n).val)
        cmd == Force(lazy[static], static, env)
        res == Status(cmd, src[n].good /\ oe.kind # "dir")
    IN  /\ Deref(static)
        /\ verdict' = [verdict EXCEPT ![n] = "stale"]
        /\ log' = Append(log, [op |-> "compile", file |-> n, cmd |-> cmd,
                               flag |-> to_flag(mode), out |-> object,
                               res |-> res])
        /\ dirs' = IF res = "ok"
                   THEN [dirs EXCEPT ![bin_dir].ent[object] =
                                        [kind |-> "file", mtime |-> clock]]
                   ELSE dirs
        /\ pc' = AfterCompile(res, todo \ {n})
        /\ err' = ErrorOf(res, "CompileFailed", n)

LoopStep(n) ==
    /\ pc = "compiling"
    /\ n \in todo
    /\ todo' = todo \ {n}
    /\ IF Classify(src[n], n) = "nostat"
       THEN /\ verdict' = [verdict EXCEPT ![n] = "nostat"]
            /\ pc' = "failed"
            /\ err' = [kind |-> "MetadataUnavailable", path |-> n]
            /\ UNCHANGED <<dirs, log, lazy, reads>>
       ELSE IF Classify(src[n], n) = "skipped"
       THEN Skip(n, "skipped")
       ELSE IF IsStale(src[n], dirs[ModeToString(mode)].ent[ObjectName(n)])
       THEN IF to_str(n).some THEN Compile(n) ELSE Panic(n)
       ELSE Skip(n, "fresh")
    /\ UNCHANGED <<clock, envVars, binKind, mode, histVars, envSteps>>

(***************************************************************************)
(* The link step: collect the object files of bin/<mode>/ and run the C   *)
(* compiler driver on them, writing bin/<mode>/<name>.                     *)
(***************************************************************************)
Link ==
    /\ pc = "linking"
    /\ LET bin_dir == ModeToString(mode)
           d == dirs[bin_dir].ent
           cmd == Force(lazy["CC"], "CC", env)
           res == Status(cmd, linkGood /\ d[name].kind # "dir")
       IN  /\ Deref("CC")
           /\ log' = Append(log, [op |-> "link", objs |-> ObjectFiles(d),
                                  cmd |-> cmd, flag |-> to_flag(mode),
                                  out |-> name, res |-> res])
           /\ dirs' = IF res = "ok"
                      THEN [dirs EXCEPT ![bin_dir].ent[name] =
                                           [kind |-> "file", mtime |-> clock]]
                      ELSE dirs
           /\ pc' = AfterLink(res)
           /\ err' = ErrorOf(res, "LinkFailed", <<>>)
    /\ UNCHANGED <<clock, envVars, binKind, mode, todo, verdict, histVars, envSteps>>

(***************************************************************************)
(* The environment, between two invocations of the tool.  What the last    *)
(* invocation did is of no interest once the environment has changed: the  *)
(* record of it is dropped.                                                *)
(***************************************************************************)
EnvTurn ==
    /\ pc \in {"idle", "done", "failed"}
    /\ builds > 0
    /\ envSteps < MaxEnvSteps
    /\ envSteps' = envSteps + 1
    /\ pc' = "idle"
    /\ mode' = "Debug"
    /\ todo' = {}
    /\ verdict' = [n \in SrcNames |-> "unseen"]
    /\ log' = <<>>
    /\ err' = NoErr
    /\ fs0' = NoSnapshot
    /\ again' = FALSE
    /\ lazy' = [s \in Statics |-> Uninit]
    /\ reads' = [v \in EnvVars |-> 0]
    /\ UNCHANGED <<clock, builds, name>>

\* The user creates a source file, or edits one into a state that compiles
EnvWriteSource(n) ==
    /\ EnvTurn
    /\ carry' = Carried
    /\ srcDir
    /\ src[n].kind \in {"none", "file"}
    /\ LangOf(n).some
    /\ src' = [src EXCEPT ![n] = [kind |-> "file", mtime |-> clock, good |-> TRUE]]
    /\ UNCHANGED <<srcDir, binKind, dirs, avail, linkGood, env>>

\* The user removes a source file
EnvRemoveSource(n) ==
    /\ EnvTurn
    /\ carry' = NoCarry
    /\ IsCandidate(src[n], n)
    /\ src' = [src EXCEPT ![n] = NoSrc]
    /\ UNCHANGED <<srcDir, binKind, dirs, avail, linkGood, env>>

\* Something else writes into bin/<mode>/: a directory whose name ends in
\* ".o", a file that is no object, and an object file that is no build's
EnvPutBin(d) ==
    /\ EnvTurn
    /\ carry' = NoCarry
    /\ dirs[d].exists
    /\ dirs' = [dirs EXCEPT ![d].ent[ObjectName(N_d)] = [kind |-> "dir", mtime |-> clock],
                            ![d].ent[N_x_txt] = [kind |-> "file", mtime |-> clock],
                            ![d].ent[ObjectName(N_ff_c)] = [kind |-> "file", mtime |-> clock]]
    /\ UNCHANGED <<srcDir, src, binKind, avail, linkGood, env>>

\* The toolchain breaks: a compiler is removed from PATH
EnvUninstall(c) ==
    /\ EnvTurn
    /\ carry' = NoCarry
    /\ c \in avail
    /\ avail' = avail \ {c}
    /\ UNCHANGED <<srcDir, src, binKind, dirs, linkGood, env>>

\* The objects stop or start linking (a library appears or disappears)
EnvLinkFlip ==
    /\ EnvTurn
    /\ carry' = NoCarry
    /\ linkGood' = ~linkGood
    /\ UNCHANGED <<srcDir, src, binKind, dirs, avail, env>>

\* Time passes between two invocations of the tool
Tick ==
    /\ pc \in {"done", "failed"} \/ (pc = "idle" /\ builds = 0)
    /\ clock < MaxTime
    /\ clock' = clock + 1
    /\ UNCHANGED <<srcDir, src, binKind, dirs, avail, linkGood, pc, mode, todo,
                   verdict, log, err, fs0, again, carry, builds, envSteps, env,
                   lazy, reads, name>>

Next ==
    \/ \E m \in Modes : BuildStart(m)
    \/ \E n \in SrcNames : LoopStep(n)
    \/ Link
    \/ \E n \in {N_a_c, N_a_cpp} : EnvWriteSource(n)
    \/ \E n \in SrcNames : EnvRemoveSource(n)
    \/ \E d \in ModeDirs : EnvPutBin(d)
    \/ \E c \in {"cc", "c++"} : EnvUninstall(c)
    \/ EnvLinkFlip
    \/ Tick

Spec == Init /\ [][Next]_vars

(***************************************************************************)
(* The scan of src/ alone: projects of one entry, of any name and any      *)
(* kind, built once or twice with nothing else going on.                   *)
(***************************************************************************)
ScanInit ==
    /\ clock = 0
    /\ srcDir = TRUE
    /\ \E n \in SrcNames, e \in {SrcFile(TRUE), SrcFile(FALSE),
                                  SrcOther("dir"), SrcOther("nostat")} :
          src = [m \in SrcNames |-> IF m = n THEN e ELSE NoSrc]
    /\ binKind = "none"
    /\ dirs = [d \in ModeDirs |-> EmptyDir]
    /\ avail = Commands
    /\ linkGood = TRUE
    /\ pc = "idle"
    /\ mode = "Debug"
    /\ todo = {}
    /\ verdict = [n \in SrcNames |-> "unseen"]
    /\ log = <<>>
    /\ err = NoErr
    /\ fs0 = NoSnapshot
    /\ again = FALSE
    /\ carry = NoCarry
    /\ builds = 0
    /\ envSteps = 0
    /\ env = [v \in EnvVars |-> Unset]
    /\ lazy = [s \in Statics |-> Uninit]
    /\ reads = [v \in EnvVars |-> 0]
    /\ name = ProjName

ScanNext ==
    \/ \E m \in Modes : BuildStart(m)
    \/ \E n \in SrcNames : LoopStep(n)
    \/ Link

ScanSpec == ScanInit /\ [][ScanNext]_vars

(***************************************************************************)
(* run_project: build_project_inner(..)?, then spawn bin/<mode>/<name> and *)
(* wait for it.  An invocation that has reached "done" and goes on to the  *)
(* spawn was `bake run`; one that stops there was `bake build`.  Whether   *)
(* the spawn succeeds is the operating system's call.  The child is taken  *)
(* to leave the project directory alone.                                   *)
(***************************************************************************)
MaySpawnAnyway(p) == p \in {"done", "failed"}
MaySpawn(p) == p = "done"

Spawn ==
    /\ MaySpawn(pc)
    /\ \E res \in {"spawned", "nospawn"} :
          /\ log' = Append(log, [op |-> "run", dir |-> ModeToString(mode),
                                 cmd |-> name, res |-> res])
          /\ pc' = IF res = "spawned" THEN "running" ELSE "runfailed"
    /\ UNCHANGED <<clock, envVars, binKind, dirs, mode, todo, verdict, err,
                   histVars, envSteps, lazy, reads>>

Wait ==
    /\ pc = "running"
    /\ pc' = "ran"
    /\ UNCHANGED <<clock, envVars, binKind, dirs, mode, todo, verdict, log, err,
                   histVars, envSteps, lazy, reads>>

\* The projects of Init, linking or not, with or without a C++ compiler
RunInit ==
    /\ clock = 0
    /\ srcDir \in BOOLEAN
    /\ src \in IF srcDir THEN Projects ELSE {[n \in SrcNames |-> NoSrc]}
    /\ binKind = "none"
    /\ dirs = [d \in ModeDirs |-> EmptyDir]
    /\ avail \in {Commands, Commands \ {"c++"}}
    /\ linkGood \in BOOLEAN
    /\ pc = "idle"
    /\ mode = "Debug"
    /\ todo = {}
    /\ verdict = [n \in SrcNames |-> "unseen"]
    /\ log = <<>>
    /\ err = NoErr
    /\ fs0 = NoSnapshot
    /\ again = FALSE
    /\ carry = NoCarry
    /\ builds = 0
    /\ envSteps = 0
    /\ env = [v \in EnvVars |-> Unset]
    /\ lazy = [s \in Statics |-> Uninit]
    /\ reads = [v \in EnvVars |-> 0]
    /\ name = ProjName

RunNext ==
    \/ \E m \in Modes : BuildStart(m)
    \/ \E n \in SrcNames : LoopStep(n)
    \/ Link
    \/ Spawn
    \/ Wait

RunSpec == RunInit /\ [][RunNext]_vars

(***************************************************************************)
(* The builds alone, every child process exiting: an iteration of the loop *)
(* that can be taken is taken, and so is the link.                         *)
(***************************************************************************)
LiveSpec ==
    /\ RunInit
    /\ [][ScanNext]_vars
    /\ WF_vars(\E n \in SrcNames : LoopStep(n))
    /\ WF_vars(Link)

(***************************************************************************)
(* The project name alone: the projects of Init under each name bake.toml  *)
(* can give, linking or not.  build_project and run_project take the name  *)
(* from bake.toml as it is; only new_project checks it.                    *)
(***************************************************************************)
NameInit ==
    /\ clock = 0
    /\ srcDir = TRUE
    /\ src \in Projects
    /\ binKind = "none"
    /\ dirs = [d \in ModeDirs |-> EmptyDir]
    /\ avail = Commands
    /\ linkGood \in BOOLEAN
    /\ pc = "idle"
    /\ mode = "Debug"
    /\ todo = {}
    /\ verdict = [n \in SrcNames |-> "unseen"]
    /\ log = <<>>
    /\ err = NoErr
    /\ fs0 = NoSnapshot
    /\ again = FALSE
    /\ carry = NoCarry
    /\ builds = 0
    /\ envSteps = 0
    /\ env = [v \in EnvVars |-> Unset]
    /\ lazy = [s \in Statics |-> Uninit]
    /\ reads = [v \in EnvVars |-> 0]
    /\ name \in ProjNames

NameSpec == NameInit /\ [][ScanNext]_vars

(***************************************************************************)
(* The toolchain alone: projects of two C++ sources, with or without a C   *)
(* source, built under each setting of CC and CXX, the environment         *)
(* changing while a build runs.  (bake itself never calls set_var: the     *)
(* change stands for anything that could make a second env::var differ.)   *)
(***************************************************************************)
ToolInit ==
    /\ clock = 0
    /\ srcDir = TRUE
    /\ \E withC \in BOOLEAN :
          src = [n \in SrcNames |->
                    IF n \in {N_a_cpp, N_b_cc} \/ (withC /\ n = N_a_c)
                    THEN SrcFile(TRUE) ELSE NoSrc]
    /\ binKind = "none"
    /\ dirs = [d \in ModeDirs |-> EmptyDir]
    /\ avail = Commands
    /\ linkGood = TRUE
    /\ pc = "idle"
    /\ mode = "Debug"
    /\ todo = {}
    /\ verdict = [n \in SrcNames |-> "unseen"]
    /\ log = <<>>
    /\ err = NoErr
    /\ fs0 = NoSnapshot
    /\ again = FALSE
    /\ carry = NoCarry
    /\ builds = 0
    /\ envSteps = 0
    /\ \E c \in {Unset, "gcc"}, cxx \in {Unset, "g++"} :
          env = [v \in EnvVars |-> IF v = "CC" THEN c ELSE cxx]
    /\ lazy = [s \in Statics |-> Uninit]
    /\ reads = [v \in EnvVars |-> 0]
    /\ name = ProjName

\* An environment variable is set or unset while a build runs
Setenv(v, x) ==
    /\ pc \in {"compiling", "linking"}
    /\ envSteps < MaxEnvSteps
    /\ envSteps' = envSteps + 1
    /\ x # env[v]
    /\ env' = [env EXCEPT ![v] = x]
    /\ UNCHANGED <<clock, srcDir, src, binKind, dirs, avail, linkGood, pc, mode,
                   todo, verdict, log, err, fs0, again, carry, builds, lazy,
                   reads, name>>

ToolNext ==
    \/ \E m \in Modes : BuildStart(m)
    \/ \E n \in SrcNames : LoopStep(n)
    \/ Link
    \/ \E x \in {Unset, "gcc"} : Setenv("CC", x)
    \/ \E x \in {Unset, "g++"} : Setenv("CXX", x)

ToolSpec == ToolInit /\ [][ToolNext]_vars

(***************************************************************************)
(* Vocabulary of the properties.  They speak of the running or the last   *)
(* build (pc # "idle"), of the filesystem as it was when that build       *)
(* started (fs0) and of the child processes it spawned (log).  They name  *)
(* the directories and the sources literally, not through the operators   *)
(* of the model.                                                           *)
(***************************************************************************)
OwnDir == IF mode = "Debug" THEN "debug" ELSE "release"

\* The source files of src/ when the build started
Sources0 == {n \in {N_a_c, N_a_cpp, N_ff_c, N_fe_c} : fs0.src[n].kind = "file"}

\* The name under which the object of source n is looked up and written
ObjOf(n) ==
    IF n \in {N_ff_c, N_fe_c} THEN <<"<U+FFFD>", ".", "c", ".", "o">>
    ELSE n \o <<".", "o">>

\* The object of source n as it was when the build started, and as it is
Obj0(n) == fs0.dirs[OwnDir].ent[ObjOf(n)]
ObjNow(n) == dirs[OwnDir].ent[ObjOf(n)]

\* The compiler invocations of this build for source n
Compiles(n) == {i \in 1..Len(log) : log[i].op = "compile" /\ log[i].file = n}
Links == {i \in 1..Len(log) : log[i].op = "link"}

Terminal == pc \in {"done", "failed"}

\* The build met no error but, at most, a failing compiler or linker
ScannedCleanly == err.kind \in {"none", "CompileFailed", "LinkFailed"}
Reached(n) == verdict[n] # "unseen"

\* A name of the form <stem>.o
EndsInDotO(n) == Len(n) >= 3 /\ n[Len(n) - 1] = "." /\ n[Len(n)] = "o"

(***************************************************************************)
(* C1 as stated: once a build has ended, every source file whose object   *)
(* did not exist when the build started was compiled exactly once.  It is  *)
(* stated of the builds most favourable to it, those that met no I/O error *)
(* on bin/ or src/.                                                        *)
(***************************************************************************)
C1_ExactlyOnce ==
    (Terminal /\ ScannedCleanly) =>
        \A n \in Sources0 : Obj0(n).kind = "none" => Cardinality(Compiles(n)) = 1

(***************************************************************************)
(* C1, amended: a source file whose object did not exist when the build   *)
(* started is compiled at most once, and exactly once as soon as the loop  *)
(* has reached it, unless its path is not valid UTF-8 and the loop panics  *)
(* on it; a build that gets to the link step has compiled it.              *)
(***************************************************************************)
C1_OnceWhenReached ==
    pc # "idle" =>
        \A n \in Sources0 : Obj0(n).kind = "none" =>
            /\ Cardinality(Compiles(n)) <= 1
            /\ Reached(n) =>
                  IF to_str(n).some THEN Cardinality(Compiles(n)) = 1
                  ELSE verdict[n] = "panic" /\ pc = "failed"
            /\ pc \in {"linking", "done"} \/ Links # {} => Cardinality(Compiles(n)) = 1

C1_Witness ==
    /\ pc = "done"
    /\ \E n \in Sources0 : Obj0(n).kind = "none" /\ Cardinality(Compiles(n)) = 1

(***************************************************************************)
(* C2 as stated: once a build has ended, every source file that was       *)
(* strictly newer than its existing object was compiled, whatever happened *)
(* to the other sources.  It is stated of the builds most favourable to    *)
(* it, those that met no I/O error on bin/ or src/.                        *)
(***************************************************************************)
C2_AlwaysCompiled ==
    (Terminal /\ ScannedCleanly) =>
        \A n \in Sources0 :
            (Obj0(n).kind # "none" /\ fs0.src[n].mtime > Obj0(n).mtime)
                => Compiles(n) # {}

(***************************************************************************)
(* C2, amended: a source file strictly newer than its existing object is  *)
(* compiled as soon as the loop reaches it, whether the other sources are  *)
(* stale or not; it is left uncompiled only when the build failed before   *)
(* its turn, or at its turn because its path is not valid UTF-8.           *)
(***************************************************************************)
C2_CompiledWhenReached ==
    pc # "idle" =>
        \A n \in Sources0 :
            (Obj0(n).kind # "none" /\ fs0.src[n].mtime > Obj0(n).mtime) =>
                /\ (Reached(n) /\ to_str(n).some) =>
                       Compiles(n) # {} /\ verdict[n] = "stale"
                /\ Compiles(n) = {} =>
                       \/ pc \in {"compiling", "failed"} /\ n \in todo
                       \/ pc = "failed" /\ verdict[n] = "panic"

C2_Witness ==
    /\ pc = "done"
    /\ \E n \in Sources0, m \in Sources0 :
        /\ Obj0(n).kind # "none" /\ fs0.src[n].mtime > Obj0(n).mtime
        /\ Compiles(n) # {}
        /\ verdict[m] = "fresh"

(***************************************************************************)
(* C3: a source file whose object exists and is strictly newer than the   *)
(* source is never compiled.                                               *)
(***************************************************************************)
C3_FreshNotCompiled ==
    pc # "idle" =>
        \A n \in Sources0 :
            (Obj0(n).kind # "none" /\ Obj0(n).mtime > fs0.src[n].mtime)
                => Compiles(n) = {}

C3_Witness ==
    /\ pc = "done"
    /\ \E n \in Sources0 :
        /\ Obj0(n).kind # "none" /\ Obj0(n).mtime > fs0.src[n].mtime
        /\ verdict[n] = "fresh"

(***************************************************************************)
(* C4: the loop's decision for a source is "object absent, or source      *)
(* strictly newer than the object"; on a tie the source is not stale and   *)
(* no compiler is run for it.  (A stale source is compiled, or the loop     *)
(* panics on its path; one that is not stale is never compiled.)           *)
(***************************************************************************)
C4_StalenessPredicate ==
    \A n \in Sources0 : Reached(n) =>
        /\ (verdict[n] \in {"stale", "panic"}) =
               (Obj0(n).kind = "none" \/ fs0.src[n].mtime > Obj0(n).mtime)
        /\ (verdict[n] = "stale") = (Compiles(n) # {})
        /\ (verdict[n] = "panic") => ~to_str(n).some
        /\ (Obj0(n).kind # "none" /\ fs0.src[n].mtime = Obj0(n).mtime)
               => verdict[n] = "fresh" /\ Compiles(n) = {}

C4_Witness ==
    /\ pc = "done"
    /\ \E n \in Sources0 :
        /\ Obj0(n).kind # "none" /\ fs0.src[n].mtime = Obj0(n).mtime
        /\ verdict[n] = "fresh"

(***************************************************************************)
(* C5: a compile that exits non-zero is the last child process of the     *)
(* build: nothing is compiled after it, nothing is linked, and the build   *)
(* has failed with the path of that source.                                *)
(***************************************************************************)
C5_FailureShortCircuit ==
    \A i \in 1..Len(log) :
        (log[i].op = "compile" /\ log[i].res = "fail") =>
            /\ i = Len(log)
            /\ Links = {}
            /\ pc = "failed"
            /\ err = [kind |-> "CompileFailed", path |-> log[i].file]

C5_Witness ==
    /\ pc = "failed"
    /\ err.kind = "CompileFailed"
    /\ \E m \in Sources0 : m \in todo /\ Obj0(m).kind = "none" /\ Compiles(m) = {}

C7_NoBinOnMissingSrc ==
    (pc = "failed" /\ err.kind = "ReadSrcFailed") =>
        /\ binKind = fs0.binKind
        /\ \A d \in ModeDirs : dirs[d].exists = fs0.dirs[d].exists

(***************************************************************************)
(* C8: every step of a build in mode M leaves the other mode's directory  *)
(* as it was, so whatever the build writes lands under bin/<M>/; and the   *)
(* decision it takes for a source is the staleness of that source against  *)
(* its object under bin/<M>/, whatever lies under the other directory.     *)
(***************************************************************************)
C8_BuildStep == builds' # builds \/ pc \in {"compiling", "linking"}

C8_Isolated ==
    LET own == IF mode' = "Debug" THEN "debug" ELSE "release"
        other == IF mode' = "Debug" THEN "release" ELSE "debug"
    IN  /\ own # other
        /\ dirs'[other] = dirs[other]
        /\ \A n \in {N_a_c, N_a_cpp} :
              (builds' = builds /\ verdict[n] = "unseen" /\ verdict'[n] \in {"fresh", "stale"}) =>
                  (verdict'[n] = "stale") =
                      (\/ dirs[own].ent[n \o <<".", "o">>].kind = "none"
                       \/ src[n].mtime > dirs[own].ent[n \o <<".", "o">>].mtime)

\* C8: every build step is isolated from the other mode's directory
C8_ModeIsolation == [][C8_BuildStep => C8_Isolated]_vars

C8_Witness ==
    /\ pc = "done"
    /\ mode = "Release"
    /\ dirs["debug"].ent[N_a_c \o <<".", "o">>].kind = "file"
    /\ fs0.dirs["debug"].ent[N_a_c \o <<".", "o">>].kind = "file"
    /\ fs0.dirs["release"].ent[N_a_c \o <<".", "o">>].kind = "none"
    /\ verdict[N_a_c] = "stale"
    /\ dirs["release"].ent[N_a_c \o <<".", "o">>].kind = "file"

(***************************************************************************)
(* C9: a compiler that cannot be launched fails the build with an error   *)
(* that is not the compile failure; no object is written for that source,  *)
(* nothing is compiled after it and nothing is linked.                     *)
(***************************************************************************)
C9_LaunchFailure ==
    \A i \in 1..Len(log) :
        (log[i].op = "compile" /\ log[i].cmd \notin avail) =>
            /\ i = Len(log)
            /\ Links = {}
            /\ pc = "failed"
            /\ err.kind = "ToolchainUnavailable"
            /\ ObjNow(log[i].file) = Obj0(log[i].file)

C9_Witness ==
    /\ pc = "failed"
    /\ err.kind = "ToolchainUnavailable"
    /\ Len(log) >= 1
    /\ log[Len(log)].op = "compile"
    /\ ObjNow(log[Len(log)].file).kind = "none"
    /\ \E m \in Sources0 : m \in todo /\ Obj0(m).kind = "none"

(***************************************************************************)
(* C10: the object paths handed to the linker are exactly the regular     *)
(* files named <stem>.o in bin/<mode>/ at link time: the objects of       *)
(* sources this build did not recompile are among them, directories and    *)
(* files of another or no extension are not.                               *)
(***************************************************************************)
C10_LinkInputs ==
    \A i \in Links :
        /\ i = Len(log)
        /\ log[i].objs =
              {n \in BinNames : dirs[OwnDir].ent[n].kind = "file" /\ EndsInDotO(n)}
        /\ \A n \in Sources0 :
              (verdict[n] = "fresh" /\ Obj0(n).kind = "file")
                  => ObjOf(n) \in log[i].objs

C10_Witness ==
    /\ pc = "done"
    /\ \E n \in Sources0 :
        /\ verdict[n] = "fresh"
        /\ ObjOf(n) \in log[Len(log)].objs
    /\ dirs[OwnDir].ent[N_d \o <<".", "o">>].kind = "dir"
    /\ dirs[OwnDir].ent[N_x_txt].kind = "file"
    /\ (N_d \o <<".", "o">>) \notin log[Len(log)].objs
    /\ ProjName \notin log[Len(log)].objs

(***************************************************************************)
(* C11: the linker runs at most once in a build, as the last child process *)
(* and only when the loop has gone through every entry of src/, every      *)
(* compile before it having succeeded; and a build that went through every *)
(* entry without a failure runs it exactly once, whether or not any source  *)
(* was stale.                                                              *)
(***************************************************************************)
ProcessedAll ==
    /\ pc # "idle"
    /\ fs0.srcDir /\ fs0.binKind # "file"
    /\ \A n \in SrcNames :
          fs0.src[n].kind # "none" => verdict[n] \in {"skipped", "fresh", "stale"}
    /\ \A i \in 1..Len(log) : log[i].op = "compile" => log[i].res = "ok"

C11_LinkOnceAfterCompiles ==
    /\ Cardinality(Links) <= 1
    /\ \A i \in Links :
          /\ i = Len(log)
          /\ todo = {}
          /\ ProcessedAll
          /\ \A j \in 1..(i - 1) : log[j].op = "compile" /\ log[j].res = "ok"
    /\ ProcessedAll =>
          IF Terminal THEN Cardinality(Links) = 1
          ELSE pc = "linking" /\ Links = {}

C11_Witness ==
    /\ pc = "done"
    /\ ProcessedAll
    /\ \A n \in Sources0 : verdict[n] = "fresh"
    /\ Cardinality(Sources0) = 2
    /\ Len(log) = 1 /\ log[1].op = "link" /\ log[1].objs # {}

(***************************************************************************)
(* C12 as stated: every object a build writes is bin/<mode>/<name>.o for   *)
(* the source <name> it was compiled from, and two distinct entries of     *)
(* src/ that the loop has taken as sources never have the same object      *)
(* path.                                                                   *)
(***************************************************************************)
TakenAsSource(n) == verdict[n] \in {"fresh", "stale", "panic"}

C12_DistinctObjectPaths ==
    /\ \A i \in 1..Len(log) :
          log[i].op = "compile" => log[i].out = log[i].file \o <<".", "o">>
    /\ \A n \in SrcNames, m \in SrcNames :
          (n # m /\ TakenAsSource(n) /\ TakenAsSource(m))
              => ObjectName(n) # ObjectName(m)

(***************************************************************************)
(* C13: the loop takes an entry of src/ as a source exactly when it is a   *)
(* regular file whose extension is c, cc, cxx, cpp or c++; every other     *)
(* entry whose metadata can be read is skipped: the build does not fail on *)
(* it and no compiler is run on it.                                        *)
(***************************************************************************)
RecognizedNames ==
    {N_a_c, N_a_cpp, N_b_cc, N_b_cxx, N_b_cplus, N_ff_c, N_fe_c}

C13_Candidates ==
    \A n \in SrcNames : Reached(n) =>
        LET cand == fs0.src[n].kind = "file" /\ n \in RecognizedNames
        IN  /\ TakenAsSource(n) = cand
            /\ Compiles(n) # {} => cand
            /\ (~cand /\ fs0.src[n].kind # "nostat") =>
                  /\ verdict[n] = "skipped"
                  /\ ~(pc = "failed" /\ err.path = n)
                  /\ err.kind \notin {"MetadataUnavailable", "CompileFailed", "Panic"}
                         \/ err.path # n

C13_Witness ==
    /\ pc = "done"
    /\ verdict[N_b_C] = "skipped"
    /\ fs0.src[N_b_C].kind = "file"
    /\ Len(log) = 1

(***************************************************************************)
(* C14: within one run each of CC and CXX is read from the environment at  *)
(* most once, every child process of the run that belongs to that variable *)
(* (the compiles of C sources and the link for CC, the compiles of C++     *)
(* sources for CXX) is launched under one and the same command, and with   *)
(* an environment that did not change that command is the variable's       *)
(* value, or the default cc / c++ when it is unset.                        *)
(***************************************************************************)
CFiles == {N_a_c, N_ff_c, N_fe_c}
CppFiles == {N_a_cpp, N_b_cc, N_b_cxx, N_b_cplus}

UsedFor(v) ==
    {log[i].cmd : i \in {j \in 1..Len(log) :
        IF log[j].op = "link" THEN v = "CC"
        ELSE IF log[j].file \in CFiles THEN v = "CC"
        ELSE v = "CXX"}}

C14_ResolvedOnce ==
    \A v \in EnvVars :
        /\ reads[v] <= 1
        /\ Cardinality(UsedFor(v)) <= 1
        /\ UsedFor(v) # {} => reads[v] = 1
        /\ (UsedFor(v) # {} /\ envSteps = 0) =>
              UsedFor(v) = {IF env[v] = "unset"
                            THEN (IF v = "CC" THEN "cc" ELSE "c++")
                            ELSE env[v]}

\* A run in which CC changed between the compile of a.c and the link, and
\* the link was still launched under the value read first
C14_Witness ==
    /\ pc = "done"
    /\ envSteps > 0
    /\ Compiles(N_a_c) # {}
    /\ env["CC"] = "gcc"
    /\ log[Len(log)].op = "link" /\ log[Len(log)].cmd = "cc"
    /\ \A i \in Compiles(N_a_c) : log[i].cmd = "cc"

(***************************************************************************)
(* C15: the link is launched under the command of the static CC, never     *)
(* under that of CPP, whether or not the build has C sources; a C source   *)
(* is compiled under the command of CC and a C++ source under that of CPP. *)
(***************************************************************************)
C15_LinkWithCC ==
    \A i \in 1..Len(log) :
        IF log[i].op = "link" \/ log[i].file \in CFiles
        THEN log[i].cmd \in {"cc", "gcc"} /\ log[i].cmd = lazy["CC"]
        ELSE /\ log[i].file \in CppFiles
             /\ log[i].cmd \in {"c++", "g++"} /\ log[i].cmd = lazy["CPP"]

\* A build of C++ sources only, compiled under g++ and linked under gcc
C15_Witness ==
    /\ pc = "done"
    /\ \A n \in CFiles : fs0.src[n].kind = "none"
    /\ Compiles(N_a_cpp) # {} /\ Compiles(N_b_cc) # {}
    /\ \A i \in Compiles(N_a_cpp) \cup Compiles(N_b_cc) : log[i].cmd = "g++"
    /\ log[Len(log)].op = "link" /\ log[Len(log)].cmd = "gcc"

(***************************************************************************)
(* C16: the executable is spawned at most once per invocation, as the last *)
(* child process, right after a link of the same mode that exited zero and *)
(* so after a build that went through every entry of src/ without failure; *)
(* what is spawned is bin/<mode>/<name>; the invocation returns success    *)
(* only once the child was waited for; and the step that spawns, or fails  *)
(* to spawn, leaves bin/ as it is.                                         *)
(***************************************************************************)
Runs == {i \in 1..Len(log) : log[i].op = "run"}

C16_Spawned ==
    /\ Cardinality(Runs) <= 1
    /\ \A i \in Runs :
          /\ i = Len(log) /\ i > 1
          /\ log[i - 1].op = "link" /\ log[i - 1].res = "ok"
          /\ \A j \in 1..(i - 1) : log[j].res = "ok"
          /\ ProcessedAll /\ err.kind = "none"
          /\ log[i].dir = OwnDir /\ log[i].cmd = <<"a", "p", "p">>
          /\ dirs[OwnDir].ent[<<"a", "p", "p">>].kind = "file"
          /\ pc = (IF log[i].res = "nospawn" THEN "runfailed"
                   ELSE IF pc = "running" THEN "running" ELSE "ran")
    /\ pc \in {"running", "ran", "runfailed"} => Runs # {}
    /\ pc = "failed" => Runs = {}

C16_SpawnStep ==
    (Len(log') > Len(log) /\ log'[Len(log')].op = "run")
        => pc = "done" /\ dirs' = dirs /\ binKind' = binKind /\ src' = src

\* C16: the state of every run, and what every spawn step leaves in place
C16_RunAfterBuild == [](C16_Spawned) /\ [][C16_SpawnStep]_vars

\* The spawn failed: the run has returned an error, the objects and the
\* executable of the build are where the build left them
C16_Witness ==
    /\ pc = "runfailed"
    /\ dirs[OwnDir].ent[<<"a", "p", "p">>].kind = "file"
    /\ \E n \in Sources0 : verdict[n] = "stale" /\ ObjNow(n).kind = "file"

(***************************************************************************)
(* C17: when the loop reaches an entry of src/ whose metadata cannot be    *)
(* read, the build has failed with that entry's path: the entries not yet  *)
(* enumerated stay untouched, no compiler runs after it and no linker runs *)
(* at all.                                                                 *)
(***************************************************************************)
C17_MetadataFatal ==
    \A n \in SrcNames :
        (pc # "idle" /\ Reached(n) /\ fs0.src[n].kind = "nostat") =>
            /\ verdict[n] = "nostat"
            /\ pc = "failed"
            /\ err = [kind |-> "MetadataUnavailable", path |-> n]
            /\ Links = {}
            /\ \A m \in todo : verdict[m] = "unseen" /\ Compiles(m) = {}
            /\ \A i \in 1..Len(log) :
                  log[i].op = "compile" /\ log[i].res = "ok"
                      /\ verdict[log[i].file] = "stale"

\* The unreadable entry came second: one source was compiled before it, one
\* that has no object is left unvisited
C17_Witness ==
    /\ pc = "failed"
    /\ verdict[N_d] = "nostat"
    /\ Len(log) = 1
    /\ \E m \in todo : fs0.src[m].kind = "file" /\ Obj0(m).kind = "none"

(***************************************************************************)
(* C18: a build that has started ends, done or failed; its position moves  *)
(* only from the scan to the loop, the link or failure, from the loop to   *)
(* the loop, the link or failure, and from the link to done or failure;    *)
(* and once it has ended no child process is spawned and nothing moves     *)
(* until the next invocation.                                              *)
(***************************************************************************)
C18_Step ==
    IF builds' # builds
    THEN pc \in {"idle", "done", "failed"} /\ pc' \in {"compiling", "linking", "failed"}
    ELSE IF pc = "compiling"
    THEN pc' \in {"compiling", "linking", "failed"} /\ Len(log') <= Len(log) + 1
    ELSE IF pc = "linking"
    THEN pc' \in {"done", "failed"} /\ Len(log') = Len(log) + 1
    ELSE pc' = pc /\ log' = log /\ dirs' = dirs

C18_Terminates ==
    /\ [][C18_Step]_vars
    /\ (pc \in {"compiling", "linking"}) ~> (pc \in {"done", "failed"})

\* A build that went through the loop, compiling two sources, and through
\* the link, and is done
C18_Witness ==
    /\ pc = "done"
    /\ Len(log) = 3
    /\ log[1].op = "compile" /\ log[2].op = "compile" /\ log[3].op = "link"
    /\ todo = {}

(***************************************************************************)
(* C19: in the build that follows a failed build of the same mode, a       *)
(* source that the failed build had compiled, and that has the             *)
(* modification time it had then, is found up to date as soon as the loop  *)
(* reaches it and is not compiled again; its object is on disk when the    *)
(* build starts.                                                           *)
(***************************************************************************)
Retained ==
    {n \in carry.files :
        fs0.src[n].kind = "file" /\ fs0.src[n].mtime = carry.mt[n]}

Orphans0 ==
    {n \in {N_a_c, N_a_cpp} : fs0.src[n].kind = "none" /\ Obj0(n).kind = "file"}

C20_OrphansLinked ==
    \A i \in Links : \A n \in Orphans0 :
        ObjNow(n) = Obj0(n) /\ ObjOf(n) \in log[i].objs

C20_Frame ==
    C8_BuildStep =>
        /\ src' = src /\ srcDir' = srcDir
        /\ \A d \in ModeDirs : \A o \in DOMAIN dirs[d].ent :
              /\ dirs[d].ent[o].kind # "none" => dirs'[d].ent[o].kind = dirs[d].ent[o].kind
              /\ dirs[d].exists => dirs'[d].exists

\* C20: what every build step leaves in place, and what every link is given
C20_NothingDeleted == [](C20_OrphansLinked) /\ [][C20_Frame]_vars

\* a.c was removed after a build had compiled it: the next build of the mode
\* has linked a.c.o again
C20_Witness ==
    /\ pc = "done"
    /\ N_a_c \in Orphans0
    /\ N_a_cpp \in Sources0
    /\ ObjOf(N_a_c) \in log[Len(log)].objs
    /\ ObjNow(N_a_c).kind = "file"

(***************************************************************************)
(* C21 as stated: the path the link writes the executable to is none of    *)
(* the object paths the link is given, and is the object path of no source *)
(* file of the build.                                                      *)
(***************************************************************************)
C21_ExeNotAnObject ==
    \A i \in Links :
        /\ log[i].out \notin log[i].objs
        /\ \A n \in Sources0 : ObjOf(n) # log[i].out

====
